---------------------------- MODULE Spec2Model ----------------------------
(***************************************************************************)
(* Model of the document merge pipeline of MANEA-PDF                       *)
(* (services/pdfService: mergeFilesToPdf and embedHtmlAsImage).            *)
(*                                                                         *)
(* Strings that the code inspects or builds (media types, file names,      *)
(* notices) are tuples of one-character strings, so that startsWith,       *)
(* endsWith, toLowerCase and the template literals are computed.           *)
(*                                                                         *)
(* Every call into a collaborator (PDFLib, mammoth, XLSX, html2canvas,     *)
(* fetch, File.arrayBuffer) either returns or throws; which one is chosen  *)
(* at the call.  An action is the synchronous code between two awaits.     *)
(*                                                                         *)
(* The components are modelled after the pipeline, each with its own       *)
(* variables and its own specification: the placement of a bitmap on a     *)
(* page (SpecPlacement), the Excel branch (SpecExcel), PdfOrganizer        *)
(* (SpecOrganizer), the file list of App (SpecApp) and AiChat (SpecChat).  *)
(* A handler that awaits is two actions: the code up to the await, which   *)
(* captures the state of its render, and the code after it.  A null of     *)
(* the code is None, or the empty tuple where ids are tuples.              *)
(***************************************************************************)
EXTENDS Integers, Sequences, FiniteSets, TLC

\* ------------------------------------------------------------- bounds

\* longest input list handed to mergeFilesToPdf
MaxFiles ==
    2

\* longest input list of the invocations that are repeated (SpecRepeat)
MaxRepeatFiles ==
    1

\* ------------------------------------------------------------- strings

ImagePrefix ==
    <<"i", "m", "a", "g", "e", "/">>

JpegType ==
    <<"i", "m", "a", "g", "e", "/", "j", "p", "e", "g">>

PngType ==
    <<"i", "m", "a", "g", "e", "/", "p", "n", "g">>

GifType ==
    <<"i", "m", "a", "g", "e", "/", "g", "i", "f">>

PdfType ==
    <<"a", "p", "p", "l", "i", "c", "a", "t", "i", "o", "n", "/", "p", "d", "f">>

DocxType ==
    <<"a", "p", "p", "l", "i", "c", "a", "t", "i", "o", "n", "/", "v", "n", "d", ".", "o", "p", "e", "n", "x", "m", "l", "f", "o", "r", "m", "a", "t", "s", "-", "o", "f", "f", "i", "c", "e", "d", "o", "c", "u", "m", "e", "n", "t", ".", "w", "o", "r", "d", "p", "r", "o", "c", "e", "s", "s", "i", "n", "g", "m", "l", ".", "d", "o", "c", "u", "m", "e", "n", "t">>

XlsxType ==
    <<"a", "p", "p", "l", "i", "c", "a", "t", "i", "o", "n", "/", "v", "n", "d", ".", "o", "p", "e", "n", "x", "m", "l", "f", "o", "r", "m", "a", "t", "s", "-", "o", "f", "f", "i", "c", "e", "d", "o", "c", "u", "m", "e", "n", "t", ".", "s", "p", "r", "e", "a", "d", "s", "h", "e", "e", "t", "m", "l", ".", "s", "h", "e", "e", "t">>

TextType ==
    <<"t", "e", "x", "t", "/", "p", "l", "a", "i", "n">>

NoType ==
    <<>>

DocxExt ==
    <<".", "d", "o", "c", "x">>

XlsxExt ==
    <<".", "x", "l", "s", "x">>

UnsupportedImage ==
    <<"U", "n", "s", "u", "p", "p", "o", "r", "t", "e", "d", " ", "i", "m", "a", "g", "e", ":", " ">>

CouldNotLoadPdf ==
    <<"C", "o", "u", "l", "d", " ", "n", "o", "t", " ", "l", "o", "a", "d", " ", "P", "D", "F", ":", " ">>

CouldNotLoadWord ==
    <<"C", "o", "u", "l", "d", " ", "n", "o", "t", " ", "l", "o", "a", "d", " ", "W", "o", "r", "d", " ", "f", "i", "l", "e", ":", " ">>

CouldNotLoadExcel ==
    <<"C", "o", "u", "l", "d", " ", "n", "o", "t", " ", "l", "o", "a", "d", " ", "E", "x", "c", "e", "l", " ", "f", "i", "l", "e", ":", " ">>

UnsupportedFile ==
    <<"U", "n", "s", "u", "p", "p", "o", "r", "t", "e", "d", " ", "f", "i", "l", "e", ":", " ">>

FailedToRender ==
    <<"F", "a", "i", "l", "e", "d", " ", "t", "o", " ", "r", "e", "n", "d", "e", "r", " ", "O", "f", "f", "i", "c", "e", " ", "d", "o", "c", "u", "m", "e", "n", "t">>

UpperCase ==
    <<"A", "B", "C", "D", "E", "F", "G", "H", "I", "J", "K", "L", "M", "N", "O", "P", "Q", "R", "S", "T", "U", "V", "W", "X", "Y", "Z">>

LowerCase ==
    <<"a", "b", "c", "d", "e", "f", "g", "h", "i", "j", "k", "l", "m", "n", "o", "p", "q", "r", "s", "t", "u", "v", "w", "x", "y", "z">>

\* String.prototype.toLowerCase, one character
LowerChar(c) ==
    IF \E k \in 1..Len(UpperCase) : UpperCase[k] = c
    THEN LowerCase[CHOOSE k \in 1..Len(UpperCase) : UpperCase[k] = c]
    ELSE c

\* String.prototype.toLowerCase
toLowerCase(s) ==
    [k \in 1..Len(s) |-> LowerChar(s[k])]

\* String.prototype.startsWith
startsWith(s, prefix) ==
    /\ Len(prefix) <= Len(s)
    /\ SubSeq(s, 1, Len(prefix)) = prefix

\* String.prototype.endsWith
endsWith(s, suffix) ==
    /\ Len(suffix) <= Len(s)
    /\ SubSeq(s, Len(s) - Len(suffix) + 1, Len(s)) = suffix

\* ------------------------------------------------------------- inputs

\* a File: name, declared media type, the number of pages of the
\* document its bytes hold when PDFDocument.load accepts them, and the
\* number of sheets of the workbook they hold when XLSX.read accepts them
File(name, type, pageCount, sheets) ==
    [name |-> name, type |-> type, pageCount |-> pageCount, sheets |-> sheets]

\* the files an input list is drawn from: every branch of the dispatch,
\* with and without a declared type, with names in upper and lower case,
\* and with a declared type that disagrees with the extension
FileUniverse ==
    { File(<<"a", ".", "p", "n", "g">>, PngType, 0, 0),
      File(<<"j", ".", "j", "p", "g">>, JpegType, 0, 0),
      File(<<"e", ".", "g", "i", "f">>, GifType, 0, 0),
      File(<<"b", ".", "p", "d", "f">>, PdfType, 2, 0),
      File(<<"c", ".", "d", "o", "c", "x">>, DocxType, 0, 0),
      File(<<"T", ".", "X", "L", "S", "X">>, NoType, 0, 1),
      File(<<"x", ".", "p", "d", "f">>, NoType, 0, 0) }

\* the files of the repeated invocations: one per branch
RepeatUniverse ==
    { f \in FileUniverse :
        f.name \in { <<"a", ".", "p", "n", "g">>, <<"e", ".", "g", "i", "f">>,
                     <<"b", ".", "p", "d", "f">>, <<"c", ".", "d", "o", "c", "x">>,
                     <<"T", ".", "X", "L", "S", "X">>, <<"x", ".", "p", "d", "f">> } }

\* the input lists of at most n files over a universe
Lists(universe, n) ==
    UNION { [1..k -> universe] : k \in 0..n }

FileLists ==
    Lists(FileUniverse, MaxFiles)

RepeatLists ==
    Lists(RepeatUniverse, MaxRepeatFiles)

\* the merge that may run between an invocation and its repetition
OtherLists ==
    { <<f>> : f \in { g \in RepeatUniverse : g.type \in {PdfType, DocxType} } }

None ==
    [none |-> TRUE]

\* ------------------------------------------------------------- state

VARIABLES
    files,       \* the files argument of the running invocation
    idx,         \* position of the for..of loop (1-based)
    pc,          \* where the invocation stands (an await, a handler, settled)
    pages,       \* the pages of mergedPdfDoc, in order
    progress,    \* the names onProgress was called with, in order
    branch,      \* the branch of the if/else chain taken for each file so far
    containers,  \* off-screen containers attached to document.body
    exc,         \* embedHtmlAsImage: an exception is pending behind finally
    thrown,      \* the collaborator calls that threw, as <<idx, call, n>>
    phase,       \* which invocation is running: "first", "other", "again", "again_after_other"
    saved        \* the settled first invocation, or None

\* the image placement of pdfService, taken alone
VARIABLES
    placement    \* a page, a bitmap, and the rectangle drawImage was given

\* the state of the PdfOrganizer component
VARIABLES
    org_pages,      \* pages: the PageInfo entries displayed, in order
    org_draggedId,  \* draggedId, or NoId
    org_loading,    \* the files of the handleFilesSelected in flight, or None (isLoading)
    org_saving,     \* the pages captured by the handleSave in flight, or None (isSaving)
    org_pdfUrl      \* pdfUrl: the document behind the object URL, or None

\* the state of the App component (the merger)
VARIABLES
    app_files,              \* files
    app_firstPageFileName,  \* firstPageFileName, or None
    app_sortCriteria,       \* sortCriteria
    app_sortOrder,          \* sortOrder
    app_draggedIndex,       \* draggedIndex (1-based), or None
    app_merging,            \* the files captured by the handleMerge in flight, or None (isLoading)
    app_processing,         \* how many files of the merge in flight onProgress has named
    app_pdfUrl              \* pdfUrl: the files the document behind the object URL was built from, or None

\* the state of the AiChat component
VARIABLES
    chat_file,            \* file, or None
    chat_session,         \* chatSession, or None
    chat_messages,        \* messages
    chat_isLoading,       \* isLoading
    chat_isInitializing,  \* isInitializing
    chat_init             \* the handleFileSelected in flight: its file and the await it stands at, or None

\* the variables of pdfService's merge
serviceVars ==
    <<files, idx, pc, pages, progress, branch, containers, exc, thrown, phase, saved>>

placementVars ==
    <<placement>>

organizerVars ==
    <<org_pages, org_draggedId, org_loading, org_saving, org_pdfUrl>>

appVars ==
    <<app_files, app_firstPageFileName, app_sortCriteria, app_sortOrder,
      app_draggedIndex, app_merging, app_processing, app_pdfUrl>>

chatVars ==
    <<chat_file, chat_session, chat_messages, chat_isLoading, chat_isInitializing,
      chat_init>>

\* the variables the merge does not touch
elsewhere ==
    <<placementVars, organizerVars, appVars, chatVars>>

vars ==
    <<serviceVars, elsewhere>>

\* the placement is not being computed
PlacementIdle ==
    placement = None

\* PdfOrganizer as mounted: the useState initial values
OrganizerIdle ==
    /\ org_pages = <<>>
    /\ org_draggedId = <<>>  \* null
    /\ org_loading = None
    /\ org_saving = None
    /\ org_pdfUrl = None

\* App as mounted: the useState initial values
AppIdle ==
    /\ app_files = <<>>
    /\ app_firstPageFileName = None
    /\ app_sortCriteria = "name"
    /\ app_sortOrder = "asc"
    /\ app_draggedIndex = None
    /\ app_merging = None
    /\ app_processing = 0
    /\ app_pdfUrl = None

\* AiChat as mounted: the useState initial values
ChatIdle ==
    /\ chat_file = None
    /\ chat_session = None
    /\ chat_messages = <<>>
    /\ chat_isLoading = FALSE
    /\ chat_isInitializing = FALSE
    /\ chat_init = None

\* nothing but the merge is running
ElsewhereIdle ==
    /\ PlacementIdle
    /\ OrganizerIdle
    /\ AppIdle
    /\ ChatIdle

\* a page of mergedPdfDoc: the file whose iteration appended it and
\* what was drawn on it
Blank(i) ==
    [origin |-> i, kind |-> "blank", src |-> 0, text |-> <<>>]

\* page.drawImage(image, ...)
Image(i) ==
    [origin |-> i, kind |-> "image", src |-> 0, text |-> <<>>]

\* page.drawImage(jpgImage, ...) of embedHtmlAsImage: the rendering of the
\* HTML of a Word document (sheet 0) or of the sheet-th sheet of a workbook
Rendered(i, sheet) ==
    [origin |-> i, kind |-> "image", src |-> sheet, text |-> <<>>]

\* page.drawText(text, ...)
Notice(i, text) ==
    [origin |-> i, kind |-> "text", src |-> 0, text |-> text]

\* the k-th page of the donor, added with mergedPdfDoc.addPage(page)
Copied(i, k) ==
    [origin |-> i, kind |-> "copy", src |-> k, text |-> <<>>]

file ==
    files[idx]

\* the chain with the extension compared as written, not lower-cased
DispatchCaseSensitive(f) ==
    IF startsWith(f.type, ImagePrefix) THEN "image"
    ELSE IF f.type = PdfType THEN "pdf"
    ELSE IF f.type = DocxType \/ endsWith(f.name, DocxExt) THEN "word"
    ELSE IF f.type = XlsxType \/ endsWith(f.name, XlsxExt) THEN "excel"
    ELSE "other"

\* the if/else chain of the loop body
Dispatch(f) ==
    IF startsWith(f.type, ImagePrefix) THEN "image"
    ELSE IF f.type = PdfType THEN "pdf"
    ELSE IF f.type = DocxType \/ endsWith(toLowerCase(f.name), DocxExt) THEN "word"
    ELSE IF f.type = XlsxType \/ endsWith(toLowerCase(f.name), XlsxExt) THEN "excel"
    ELSE "other"

\* the running invocation repeats the first one
Repeating ==
    phase \in {"again", "again_after_other"}

\* what a collaborator call may do: return (TRUE) or throw (FALSE).  The
\* repetition of an invocation gets the outcomes the first one got.
Outcomes(call) ==
    IF Repeating THEN { <<idx, call, 0>> \notin saved.thrown } ELSE BOOLEAN

\* the record of a call that returned (ok) or threw
Record(call, ok) ==
    IF ok THEN thrown ELSE thrown \cup { <<idx, call, 0>> }

\* two calls in a row, the second made only when the first returned:
\* <<TRUE, TRUE>>, <<FALSE, TRUE>> (the first threw), <<TRUE, FALSE>>
Pairs(call1, call2) ==
    { o \in Outcomes(call1) \X Outcomes(call2) : o[1] \/ o[2] }

RecordPair(call1, call2, o) ==
    IF o[1] THEN Record(call2, o[2]) ELSE Record(call1, FALSE)

\* const page = doc.addPage(); page.drawText(text, ...): the pages after
\* addPage returned or threw (ok1) and drawText returned or threw (ok2)
Placeholder(text, ok1, ok2) ==
    IF ~ok1 THEN pages
    ELSE Append(pages, IF ok2 THEN Notice(idx, text) ELSE Blank(idx))

\* the last page added, drawn on
DrawOnLast(page) ==
    [pages EXCEPT ![Len(pages)] = page]

\* onProgress called with the name of the first file at every iteration
onProgressFirstName(name) ==
    Append(progress, files[1].name)

\* onProgress?.(file.name), as handleMerge observes it
onProgress(name) ==
    Append(progress, name)

\* the iteration of the loop ends: the next file, or the end of the loop
NextFile ==
    /\ idx' = idx + 1
    /\ pc' = "loop"

\* the sheet whose HTML the running iteration passes to embedHtmlAsImage:
\* workbook.SheetNames[0] for a workbook, none (0) for a Word document
htmlContent ==
    IF Dispatch(file) = "excel" /\ file.sheets >= 1 THEN 1 ELSE 0

\* document.body.appendChild(container), the entry of embedHtmlAsImage
EnterEmbedHtml ==
    /\ containers' = containers + 1
    /\ exc' = FALSE
    /\ pc' = "html_render"

InitLocals ==
    /\ idx = 0
    /\ pc = "create"
    /\ pages = <<>>
    /\ progress = <<>>
    /\ branch = <<>>
    /\ containers = 0
    /\ exc = FALSE
    /\ thrown = {}

Init ==
    /\ files \in FileLists
    /\ InitLocals
    /\ phase = "first"
    /\ saved = None
    /\ ElsewhereIdle

InitRepeat ==
    /\ files \in RepeatLists
    /\ InitLocals
    /\ phase = "first"
    /\ saved = None
    /\ ElsewhereIdle

\* ------------------------------------------------------------- mergeFilesToPdf

\* the output document kept from one invocation to the next
CreateSharedDocument ==
    /\ pc = "create"
    /\ \E ok \in Outcomes("create") :
         /\ thrown' = Record("create", ok)
         /\ IF ok
            THEN /\ idx' = 1
                 /\ pc' = "loop"
            ELSE /\ pc' = "rejected"
                 /\ UNCHANGED idx
    /\ UNCHANGED <<files, pages, progress, branch, containers, exc, phase, saved, elsewhere>>

\* const mergedPdfDoc = await PDFDocument.create()
Create ==
    /\ pc = "create"
    /\ \E ok \in Outcomes("create") :
         /\ thrown' = Record("create", ok)
         /\ IF ok
            THEN /\ pages' = <<>>
                 /\ idx' = 1
                 /\ pc' = "loop"
            ELSE /\ pc' = "rejected"
                 /\ UNCHANGED <<pages, idx>>
    /\ UNCHANGED <<files, progress, branch, containers, exc, phase, saved, elsewhere>>

\* the head of an iteration: onProgress, the dispatch, and the code of the
\* branch up to its first await (or to its end when it has none)
LoopHead ==
    /\ pc = "loop"
    /\ idx <= Len(files)
    /\ progress' = onProgress(file.name)
    /\ branch' = Append(branch, Dispatch(file))
    /\ CASE Dispatch(file) = "image" ->
              \E ok \in Outcomes("image.addPage") :
                 /\ thrown' = Record("image.addPage", ok)
                 /\ pages' = IF ok THEN Append(pages, Blank(idx)) ELSE pages
                 /\ pc' = IF ok THEN "image_read" ELSE "rejected"
                 /\ UNCHANGED idx
         [] Dispatch(file) = "pdf" ->
                 /\ pc' = "pdf_read"
                 /\ UNCHANGED <<pages, thrown, idx>>
         [] Dispatch(file) = "word" ->
                 /\ pc' = "word_read"
                 /\ UNCHANGED <<pages, thrown, idx>>
         [] Dispatch(file) = "excel" ->
                 /\ pc' = "excel_read"
                 /\ UNCHANGED <<pages, thrown, idx>>
         [] OTHER ->
              \E o \in Pairs("other.addPage", "other.drawText") :
                 /\ thrown' = RecordPair("other.addPage", "other.drawText", o)
                 /\ pages' = Placeholder(UnsupportedFile \o file.name, o[1], o[2])
                 /\ IF o[1] /\ o[2]
                    THEN NextFile
                    ELSE pc' = "rejected" /\ UNCHANGED idx
    /\ UNCHANGED <<files, containers, exc, phase, saved, elsewhere>>

\* the for..of loop is exhausted: return await mergedPdfDoc.save()
EndLoop ==
    /\ pc = "loop"
    /\ idx > Len(files)
    /\ pc' = "save"
    /\ UNCHANGED <<files, idx, pages, progress, branch, containers, exc, thrown, phase, saved, elsewhere>>

\* mergedPdfDoc.save() settles
Save ==
    /\ pc = "save"
    /\ \E ok \in Outcomes("save") :
         /\ thrown' = Record("save", ok)
         /\ pc' = IF ok THEN "resolved" ELSE "rejected"
    /\ UNCHANGED <<files, idx, pages, progress, branch, containers, exc, phase, saved, elsewhere>>

\* image branch: await file.arrayBuffer() settles; an image that is neither
\* JPEG nor PNG gets its notice here and the loop continues
ImageRead ==
    /\ pc = "image_read"
    /\ \E ok \in Outcomes("image.arrayBuffer") :
         IF ~ok
         THEN /\ thrown' = Record("image.arrayBuffer", FALSE)
              /\ pc' = "rejected"
              /\ UNCHANGED <<pages, idx>>
         ELSE IF file.type = JpegType \/ file.type = PngType
         THEN /\ pc' = "image_embed"
              /\ UNCHANGED <<pages, idx, thrown>>
         ELSE \E ok2 \in Outcomes("image.drawText") :
              /\ thrown' = Record("image.drawText", ok2)
              /\ IF ok2
                 THEN /\ pages' = DrawOnLast(Notice(idx, UnsupportedImage \o file.name))
                      /\ NextFile
                 ELSE /\ pc' = "rejected"
                      /\ UNCHANGED <<pages, idx>>
    /\ UNCHANGED <<files, progress, branch, containers, exc, phase, saved, elsewhere>>

\* image branch: await embedJpg / embedPng settles, then page.drawImage
ImageEmbed ==
    /\ pc = "image_embed"
    /\ \E o \in Pairs("image.embed", "image.drawImage") :
         /\ thrown' = RecordPair("image.embed", "image.drawImage", o)
         /\ IF o[1] /\ o[2]
            THEN /\ pages' = DrawOnLast(Image(idx))
                 /\ NextFile
            ELSE /\ pc' = "rejected"
                 /\ UNCHANGED <<pages, idx>>
    /\ UNCHANGED <<files, progress, branch, containers, exc, phase, saved, elsewhere>>

\* PDF branch: await file.arrayBuffer() settles
PdfRead ==
    /\ pc = "pdf_read"
    /\ \E ok \in Outcomes("pdf.arrayBuffer") :
         /\ thrown' = Record("pdf.arrayBuffer", ok)
         /\ pc' = IF ok THEN "pdf_load" ELSE "pdf_catch"
    /\ UNCHANGED <<files, idx, pages, progress, branch, containers, exc, phase, saved, elsewhere>>

\* PDF branch: await PDFDocument.load settles, then getPageIndices
PdfLoad ==
    /\ pc = "pdf_load"
    /\ \E ok \in Outcomes("pdf.load") :
         /\ thrown' = Record("pdf.load", ok)
         /\ pc' = IF ok THEN "pdf_copy" ELSE "pdf_catch"
    /\ UNCHANGED <<files, idx, pages, progress, branch, containers, exc, phase, saved, elsewhere>>

\* the pages of the donor added last page first
CopiedPagesReversed(i, k) ==
    [n \in 1..k |-> Copied(i, k - n + 1)]

\* the pages of the donor from the first to the k-th, as added to the output
CopiedPages(i, k) ==
    [n \in 1..k |-> Copied(i, n)]

\* how many addPage(page) calls of the forEach return before one throws
\* (all of them when none throws)
Added(n) ==
    IF Repeating
    THEN { k \in 0..n : /\ \A j \in 1..k : <<idx, "pdf.addPage", j>> \notin saved.thrown
                        /\ k < n => <<idx, "pdf.addPage", k + 1>> \in saved.thrown }
    ELSE 0..n

\* PDF branch: await copyPages settles, then forEach(page => addPage(page))
PdfCopy ==
    /\ pc = "pdf_copy"
    /\ \E ok \in Outcomes("pdf.copyPages") :
         IF ~ok
         THEN /\ thrown' = Record("pdf.copyPages", FALSE)
              /\ pc' = "pdf_catch"
              /\ UNCHANGED <<pages, idx>>
         ELSE \E k \in Added(file.pageCount) :
              /\ pages' = pages \o CopiedPages(idx, k)
              /\ IF k = file.pageCount
                 THEN /\ NextFile
                      /\ UNCHANGED thrown
                 ELSE /\ thrown' = thrown \cup { <<idx, "pdf.addPage", k + 1>> }
                      /\ pc' = "pdf_catch"
                      /\ UNCHANGED idx
    /\ UNCHANGED <<files, progress, branch, containers, exc, phase, saved, elsewhere>>

\* a catch block of the loop body: addPage, drawText of the notice
CatchBlock(at, text, call1, call2) ==
    /\ pc = at
    /\ \E o \in Pairs(call1, call2) :
         /\ thrown' = RecordPair(call1, call2, o)
         /\ pages' = Placeholder(text \o file.name, o[1], o[2])
         /\ IF o[1] /\ o[2]
            THEN NextFile
            ELSE pc' = "rejected" /\ UNCHANGED idx
    /\ UNCHANGED <<files, progress, branch, containers, exc, phase, saved, elsewhere>>

\* PDF branch: catch (e)
PdfCatch ==
    CatchBlock("pdf_catch", CouldNotLoadPdf, "pdf.catch.addPage", "pdf.catch.drawText")

\* Word branch: await file.arrayBuffer() settles
WordRead ==
    /\ pc = "word_read"
    /\ \E ok \in Outcomes("word.arrayBuffer") :
         /\ thrown' = Record("word.arrayBuffer", ok)
         /\ pc' = IF ok THEN "word_convert" ELSE "word_catch"
    /\ UNCHANGED <<files, idx, pages, progress, branch, containers, exc, phase, saved, elsewhere>>

\* Word branch: await mammoth.convertToHtml settles; embedHtmlAsImage is
\* entered and runs up to its first await
WordConvert ==
    /\ pc = "word_convert"
    /\ \E ok \in Outcomes("word.convertToHtml") :
         /\ thrown' = Record("word.convertToHtml", ok)
         /\ IF ok
            THEN EnterEmbedHtml
            ELSE pc' = "word_catch" /\ UNCHANGED <<containers, exc>>
    /\ UNCHANGED <<files, idx, pages, progress, branch, phase, saved, elsewhere>>

\* Word branch: catch (e)
WordCatch ==
    CatchBlock("word_catch", CouldNotLoadWord, "word.catch.addPage", "word.catch.drawText")

\* Excel branch: await file.arrayBuffer() settles, then XLSX.read and
\* sheet_to_html of the first sheet; embedHtmlAsImage is entered
ExcelRead ==
    /\ pc = "excel_read"
    /\ \E ok \in Outcomes("excel.arrayBuffer") :
         IF ~ok
         THEN /\ thrown' = Record("excel.arrayBuffer", FALSE)
              /\ pc' = "excel_catch"
              /\ UNCHANGED <<containers, exc>>
         ELSE \E o \in Pairs("excel.read", "excel.sheet_to_html") :
              /\ thrown' = RecordPair("excel.read", "excel.sheet_to_html", o)
              /\ IF o[1] /\ o[2]
                 THEN EnterEmbedHtml
                 ELSE pc' = "excel_catch" /\ UNCHANGED <<containers, exc>>
    /\ UNCHANGED <<files, idx, pages, progress, branch, phase, saved, elsewhere>>

\* Excel branch: catch (e)
ExcelCatch ==
    CatchBlock("excel_catch", CouldNotLoadExcel, "excel.catch.addPage", "excel.catch.drawText")

\* ------------------------------------------------------------- embedHtmlAsImage

\* await html2canvas settles, then canvas.toDataURL
HtmlRender ==
    /\ pc = "html_render"
    /\ \E o \in Pairs("html.html2canvas", "html.toDataURL") :
         /\ thrown' = RecordPair("html.html2canvas", "html.toDataURL", o)
         /\ pc' = IF o[1] /\ o[2] THEN "html_fetch" ELSE "html_catch"
    /\ UNCHANGED <<files, idx, pages, progress, branch, containers, exc, phase, saved, elsewhere>>

\* await fetch(jpgDataUrl).then(res => res.arrayBuffer()) settles
HtmlFetch ==
    /\ pc = "html_fetch"
    /\ \E ok \in Outcomes("html.fetch") :
         /\ thrown' = Record("html.fetch", ok)
         /\ pc' = IF ok THEN "html_embed" ELSE "html_catch"
    /\ UNCHANGED <<files, idx, pages, progress, branch, containers, exc, phase, saved, elsewhere>>

\* await pdfDoc.embedJpg settles, then addPage and drawImage
HtmlEmbed ==
    /\ pc = "html_embed"
    /\ \E ok \in Outcomes("html.embedJpg") :
         IF ~ok
         THEN /\ thrown' = Record("html.embedJpg", FALSE)
              /\ pc' = "html_catch"
              /\ UNCHANGED pages
         ELSE \E o \in Pairs("html.addPage", "html.drawImage") :
              /\ thrown' = RecordPair("html.addPage", "html.drawImage", o)
              /\ pages' = IF ~o[1] THEN pages
                          ELSE Append(pages, IF o[2] THEN Rendered(idx, htmlContent)
                                                 ELSE Blank(idx))
              /\ pc' = IF o[1] /\ o[2] THEN "html_finally" ELSE "html_catch"
    /\ UNCHANGED <<files, idx, progress, branch, containers, exc, phase, saved, elsewhere>>

\* catch (error): addPage, drawText of the notice; an exception thrown
\* here is pending while finally runs
HtmlCatch ==
    /\ pc = "html_catch"
    /\ \E o \in Pairs("html.catch.addPage", "html.catch.drawText") :
         /\ thrown' = RecordPair("html.catch.addPage", "html.catch.drawText", o)
         /\ pages' = Placeholder(FailedToRender, o[1], o[2])
         /\ exc' = ~(o[1] /\ o[2])
    /\ pc' = "html_finally"
    /\ UNCHANGED <<files, idx, progress, branch, containers, phase, saved, elsewhere>>

\* the container removed after the try/catch instead of in finally: an
\* exception thrown by the catch block skips the removal
HtmlFinallySkippedOnThrow ==
    /\ pc = "html_finally"
    /\ containers' = IF exc THEN containers ELSE containers - 1
    /\ exc' = FALSE
    /\ IF exc
       THEN /\ pc' = IF Dispatch(file) = "word" THEN "word_catch" ELSE "excel_catch"
            /\ UNCHANGED idx
       ELSE NextFile
    /\ UNCHANGED <<files, pages, progress, branch, thrown, phase, saved, elsewhere>>

\* finally: document.body.removeChild(container); then the function returns
\* to the loop, or the pending exception reaches the catch of the caller
HtmlFinally ==
    /\ pc = "html_finally"
    /\ containers' = containers - 1
    /\ exc' = FALSE
    /\ IF exc
       THEN /\ pc' = IF Dispatch(file) = "word" THEN "word_catch" ELSE "excel_catch"
            /\ UNCHANGED idx
       ELSE NextFile
    /\ UNCHANGED <<files, pages, progress, branch, thrown, phase, saved, elsewhere>>

\* ------------------------------------------------------------- invocations

Settled ==
    pc \in {"resolved", "rejected"}

\* the locals of a new invocation; document.body is not local, and pages
\* stays what the last document created holds until Create makes a new one
Invoke(fs) ==
    /\ files' = fs
    /\ idx' = 0
    /\ pc' = "create"
    /\ progress' = <<>>
    /\ branch' = <<>>
    /\ exc' = FALSE
    /\ thrown' = {}
    /\ UNCHANGED <<pages, containers, elsewhere>>

\* the first invocation has settled; another merge runs before it is repeated
Other ==
    /\ Settled
    /\ phase = "first"
    /\ saved' = [files |-> files, thrown |-> thrown, pages |-> pages,
                 pc |-> pc, progress |-> progress]
    /\ phase' = "other"
    /\ \E fs \in OtherLists : Invoke(fs)

\* the first invocation is repeated: the same list, the same outcomes
Again ==
    /\ Settled
    /\ \/ /\ phase = "first"
          /\ saved' = [files |-> files, thrown |-> thrown, pages |-> pages,
                       pc |-> pc, progress |-> progress]
          /\ phase' = "again"
          /\ Invoke(files)
       \/ /\ phase = "other"
          /\ saved' = saved
          /\ phase' = "again_after_other"
          /\ Invoke(saved.files)

Step ==
    \/ Create
    \/ LoopHead
    \/ EndLoop
    \/ Save
    \/ ImageRead
    \/ ImageEmbed
    \/ PdfRead
    \/ PdfLoad
    \/ PdfCopy
    \/ PdfCatch
    \/ WordRead
    \/ WordConvert
    \/ WordCatch
    \/ ExcelRead
    \/ ExcelCatch
    \/ HtmlRender
    \/ HtmlFetch
    \/ HtmlEmbed
    \/ HtmlCatch
    \/ HtmlFinally

Next ==
    Step

Spec ==
    Init /\ [][Next]_vars

NextRepeat ==
    \/ Step
    \/ Other
    \/ Again

SpecRepeat ==
    InitRepeat /\ [][NextRepeat]_vars

\* ------------------------------------------------------------- the dispatch alone

BareImage ==
    <<"i", "m", "a", "g", "e">>

UpperPngType ==
    <<"I", "M", "A", "G", "E", "/", "P", "N", "G">>

DispatchNames ==
    { <<"a", ".", "p", "n", "g">>, <<"e", ".", "g", "i", "f">>, <<"x", ".", "p", "d", "f">>,
      <<"c", ".", "d", "o", "c", "x">>, <<"R", ".", "D", "O", "C", "X">>,
      <<"s", ".", "x", "l", "s", "x">>, <<"T", ".", "X", "l", "s", "x">>,
      <<"n", ".", "t", "x", "t">>, <<"d", "o", "c", "x">>, <<"x", ".", "x", "l", "s">> }

DispatchTypes ==
    { PngType, JpegType, GifType, PdfType, DocxType, XlsxType, TextType, NoType,
      BareImage, UpperPngType }

\* every name with every declared type
DispatchUniverse ==
    { File(n, t, 1, 1) : n \in DispatchNames, t \in DispatchTypes }

InitDispatch ==
    /\ files \in { <<f>> : f \in DispatchUniverse }
    /\ InitLocals
    /\ phase = "first"
    /\ saved = None
    /\ ElsewhereIdle

\* the invocation up to the dispatch of its file
NextDispatch ==
    \/ Create
    \/ LoopHead

SpecDispatch ==
    InitDispatch /\ [][NextDispatch]_vars

\* ------------------------------------------------------------- properties

\* the calls made for file i that threw
ThrownAt(i) ==
    { t[2] : t \in { u \in thrown : u[1] = i } }

\* the pages appended during the iteration of file i
PagesOf(i) ==
    SelectSeq(pages, LAMBDA p : p.origin = i)

\* the iteration of file i is over: the loop went on, or the invocation settled
Finished(i) ==
    /\ i \in 1..Len(files)
    /\ \/ idx > i
       \/ Settled /\ idx = i

\* the invocation rejected while file i was being processed
RejectedAt(i) ==
    pc = "rejected" /\ idx = i

\* the name occurs in the text
Contains(text, name) ==
    \E k \in 1..(Len(text) - Len(name) + 1) : SubSeq(text, k, k + Len(name) - 1) = name

RECURSIVE Sum(_, _)
Sum(f, n) ==
    IF n = 0 THEN 0 ELSE f[n] + Sum(f, n - 1)

\* the per-file steps C1 lists: reading the bytes, decoding or embedding an
\* image, loading a PDF, converting an Office file, rasterizing
ListedSteps ==
    { "image.arrayBuffer", "image.embed", "pdf.arrayBuffer", "pdf.load", "pdf.copyPages",
      "word.arrayBuffer", "word.convertToHtml", "excel.arrayBuffer", "excel.read",
      "excel.sheet_to_html", "html.html2canvas", "html.toDataURL", "html.fetch",
      "html.embedJpg" }

\* C1: when PDFDocument.create succeeded and the only calls that threw are
\* per-file steps (read, decode/embed, load, convert, rasterize), the
\* invocation does not reject.
C1_PerFileFailureNeverRejects ==
    (\A t \in thrown : t[2] \in ListedSteps) => pc # "rejected"

\* the steps C2 names as failing without changing the count: conversion,
\* rasterization, embed, draw, and the load of a PDF
CountedSteps ==
    ListedSteps \cup { "image.drawImage", "html.drawImage" }

\* the donor of file i was loaded and its pages were copied
DonorCopied(i) ==
    /\ branch[i] = "pdf"
    /\ ThrownAt(i) \cap {"pdf.arrayBuffer", "pdf.load", "pdf.copyPages", "pdf.addPage"} = {}

\* the page count C2 gives file i
ClaimedCount(i) ==
    IF DonorCopied(i) THEN files[i].pageCount ELSE 1

\* C2: when the invocation resolves (whatever conversion, rasterization,
\* embed, draw or load steps threw), the output has as many pages as the sum
\* over the files of the donor's page count for a PDF that was copied and 1
\* for every other file.
C2_PageCountIsSum ==
    (pc = "resolved" /\ \A t \in thrown : t[2] \in CountedSteps)
        => Len(pages) = Sum([i \in 1..Len(files) |-> ClaimedCount(i)], Len(files))

\* pages are never removed or reordered: a step keeps every page in its
\* place (a blank page may be drawn on) and adds pages at the end only
PagesAppendOnly ==
    /\ Len(pages') >= Len(pages)
    /\ \A k \in 1..Len(pages) :
         /\ pages'[k].origin = pages[k].origin
         /\ pages[k].kind # "blank" => pages'[k] = pages[k]

\* the pages of file i precede the pages of file j for i < j
PagesInInputOrder ==
    \A j, k \in 1..Len(pages) : j < k => pages[j].origin <= pages[k].origin

\* the pages copied from one donor are one contiguous run in the donor's order
DonorRunsContiguous ==
    \A k \in 1..Len(pages) :
        pages[k].kind = "copy" =>
            IF pages[k].src = 1
            THEN \A j \in 1..Len(pages) :
                    (pages[j].kind = "copy" /\ pages[j].origin = pages[k].origin
                        /\ pages[j].src = 1) => j = k
            ELSE k > 1 /\ pages[k - 1] = Copied(pages[k].origin, pages[k].src - 1)

\* C3: at every point of a merge the page sequence is append-only and ordered
\* by input position, and the pages copied from one donor form one contiguous
\* run in the donor's page order.
C3_AppendOnlyInInputOrder ==
    /\ [](PagesInInputOrder /\ DonorRunsContiguous)
    /\ [][PagesAppendOnly]_vars

\* a two-page donor was copied between the pages of two other files
C3_Witness ==
    /\ pc = "resolved"
    /\ Len(files) = 2
    /\ Len(pages) = 3
    /\ pages[1].origin = 1
    /\ pages[2] = Copied(2, 1)
    /\ pages[3] = Copied(2, 2)

\* C4: for a file of type application/pdf whose load or page copy threw,
\* once its iteration is over exactly one page was appended for it, the page
\* carries "Could not load PDF: <name>", no page of the donor was appended,
\* and the merge went on to the next file.
C4_CorruptPdfOnePlaceholder ==
    \A i \in 1..Len(files) :
        (/\ Finished(i)
         /\ files[i].type = PdfType
         /\ ThrownAt(i) \cap {"pdf.load", "pdf.copyPages"} # {})
        => /\ PagesOf(i) = <<Notice(i, CouldNotLoadPdf \o files[i].name)>>
           /\ ~RejectedAt(i)

\* C5: every page that carries a notice carries the name of the file whose
\* iteration appended it.
C5_NoticeNamesTheFile ==
    \A k \in 1..Len(pages) :
        pages[k].kind = "text" => Contains(pages[k].text, files[pages[k].origin].name)


HtmlPcs ==
    {"html_render", "html_fetch", "html_embed", "html_catch", "html_finally"}

\* C6: the container of embedHtmlAsImage is attached exactly while a call of
\* embedHtmlAsImage is in progress: at most one at any time, none when no call
\* is in progress, none once mergeFilesToPdf has settled, whichever way the
\* call ended.
C6_ContainerRemoved ==
    /\ containers \in {0, 1}
    /\ containers = 1 <=> pc \in HtmlPcs
    /\ Settled => containers = 0

\* drawing the placeholder of embedHtmlAsImage threw, the exception went
\* through finally to the caller, and the merge settled
C6_Witness ==
    /\ Settled
    /\ containers = 0
    /\ \E t \in thrown : t[2] = "html.catch.drawText"
    /\ \E t \in thrown : t[2] = "html.html2canvas"

\* the files whose iteration has started
Started ==
    IF pc = "create" THEN 0
    ELSE IF pc = "loop" THEN idx - 1
    ELSE IF idx > Len(files) THEN Len(files) ELSE idx

\* a step touches the pages of the file last announced only
OneFileAtATime ==
    /\ \A k \in 1..Len(pages') :
         (k > Len(pages) \/ pages'[k] # pages[k]) => pages'[k].origin = Len(progress')
    /\ \A t \in thrown' \ thrown :
         t[2] \notin {"create", "save"} => t[1] = Len(progress')

IsImageType(t) ==
    startsWith(t, ImagePrefix)

\* the declared type decides the branch
TypeDecides(f) ==
    IsImageType(f.type) \/ f.type \in {PdfType, DocxType, XlsxType}

\* the branch by declared type alone
ByType(f) ==
    IF IsImageType(f.type) THEN "image"
    ELSE IF f.type = PdfType THEN "pdf"
    ELSE IF f.type = DocxType THEN "word"
    ELSE "excel"

\* the branch by extension alone, Office formats only
ByExtension(f) ==
    IF endsWith(toLowerCase(f.name), DocxExt) THEN "word"
    ELSE IF endsWith(toLowerCase(f.name), XlsxExt) THEN "excel"
    ELSE "other"

\* a file dispatched to the last branch that was drawn got its notice
OtherGetsNotice ==
    \A k \in 1..Len(branch) :
        (branch[k] = "other" /\ Finished(k) /\ ThrownAt(k) = {})
            => PagesOf(k) = <<Notice(k, UnsupportedFile \o files[k].name)>>

C9_UnsupportedImageOnePlaceholder ==
    /\ pc = "image_embed" => file.type \in {JpegType, PngType}
    /\ \A i \in 1..Len(files) :
         (/\ Finished(i)
          /\ IsImageType(files[i].type)
          /\ files[i].type \notin {JpegType, PngType}
          /\ ThrownAt(i) \subseteq {"image.arrayBuffer"})
         => /\ PagesOf(i) = <<Notice(i, UnsupportedImage \o files[i].name)>>
            /\ ~RejectedAt(i)

\* what a caller sees of a page: which file it comes from and what it is
Origins(ps) ==
    [k \in 1..Len(ps) |-> <<ps[k].origin, ps[k].kind, ps[k].src>>]

\* C10: an invocation repeated on the same list with the same outcomes of the
\* collaborators settles the same way with the same page count and the same
\* sequence of page origins (when it resolves), directly after the first
\* invocation or after a different merge.
C10_RepeatedMergeIsTheSame ==
    (Repeating /\ Settled)
        => /\ pc = saved.pc
           /\ progress = saved.progress
           /\ thrown = saved.thrown
           /\ pc = "resolved" =>
                 /\ Len(pages) = Len(saved.pages)
                 /\ Origins(pages) = Origins(saved.pages)

\* a merge of one file that produced pages was repeated after another merge
C10_Witness ==
    /\ phase = "again_after_other"
    /\ pc = "resolved"
    /\ saved.pc = "resolved"
    /\ Len(pages) >= 1

\* ------------------------------------------------------------- image placement

\* the largest side of a page or of a bitmap, in points or pixels
MaxSide == 4

\* a number, kept exact as a fraction with a positive denominator
Frac(n, d) ==
    [n |-> n, d |-> d]

\* a / b
Div(a, b) ==
    Frac(a.n * b.d, a.d * b.n)

\* a * b
Mul(a, b) ==
    Frac(a.n * b.n, a.d * b.d)

\* a - b
Sub(a, b) ==
    Frac(a.n * b.d - b.n * a.d, a.d * b.d)

\* a + b
Add(a, b) ==
    Frac(a.n * b.d + b.n * a.d, a.d * b.d)

\* a <= b
Leq(a, b) ==
    a.n * b.d <= b.n * a.d

\* a = b as numbers
Same(a, b) ==
    a.n * b.d = b.n * a.d

\* a width and a height
Size(w, h) ==
    [width |-> Frac(w, 1), height |-> Frac(h, 1)]

Two ==
    Frac(2, 1)

Zero ==
    Frac(0, 1)

\* the larger of the two ratios
ScaleMax(pageDimensions, imageDimensions) ==
    LET byWidth == Div(pageDimensions.width, imageDimensions.width)
        byHeight == Div(pageDimensions.height, imageDimensions.height)
    IN  IF Leq(byWidth, byHeight) THEN byHeight ELSE byWidth

\* Math.min(pageDimensions.width / imageDimensions.width,
\*          pageDimensions.height / imageDimensions.height)
Scale(pageDimensions, imageDimensions) ==
    LET byWidth == Div(pageDimensions.width, imageDimensions.width)
        byHeight == Div(pageDimensions.height, imageDimensions.height)
    IN  IF Leq(byWidth, byHeight) THEN byWidth ELSE byHeight

\* the options of page.drawImage in the image branch of mergeFilesToPdf
ImageBranchOptions(pageDimensions, imageDimensions) ==
    LET scale == Scale(pageDimensions, imageDimensions)
    IN  [x |-> Div(Sub(pageDimensions.width, Mul(imageDimensions.width, scale)), Two),
         y |-> Div(Sub(pageDimensions.height, Mul(imageDimensions.height, scale)), Two),
         width |-> Mul(imageDimensions.width, scale),
         height |-> Mul(imageDimensions.height, scale)]

\* the options of page.drawImage in embedHtmlAsImage
HtmlOptions(pageDimensions, imageDimensions) ==
    LET scale == Scale(pageDimensions, imageDimensions)
        scaledWidth == Mul(imageDimensions.width, scale)
        scaledHeight == Mul(imageDimensions.height, scale)
    IN  [x |-> Div(Sub(pageDimensions.width, scaledWidth), Two),
         y |-> Div(Sub(pageDimensions.height, scaledHeight), Two),
         width |-> scaledWidth,
         height |-> scaledHeight]

\* a page of any size and an embedded bitmap of any positive size
Sizes ==
    { Size(w, h) : w \in 1..MaxSide, h \in 1..MaxSide }

\* the merge is not running
ServiceIdle ==
    /\ files = <<>>
    /\ InitLocals
    /\ phase = "first"
    /\ saved = None

InitPlacement ==
    /\ ServiceIdle
    /\ OrganizerIdle
    /\ AppIdle
    /\ ChatIdle
    /\ \E p \in Sizes, i \in Sizes :
         placement = [path |-> "none", page |-> p, image |-> i, options |-> None]

\* page.drawImage(image, {...}) of the image branch
DrawImageBranch ==
    /\ placement.path = "none"
    /\ placement' = [placement EXCEPT
                       !.path = "image",
                       !.options = ImageBranchOptions(placement.page, placement.image)]
    /\ UNCHANGED <<serviceVars, organizerVars, appVars, chatVars>>

\* page.drawImage(jpgImage, {...}) of embedHtmlAsImage
DrawHtml ==
    /\ placement.path = "none"
    /\ placement' = [placement EXCEPT
                       !.path = "html",
                       !.options = HtmlOptions(placement.page, placement.image)]
    /\ UNCHANGED <<serviceVars, organizerVars, appVars, chatVars>>

NextPlacement ==
    \/ DrawImageBranch
    \/ DrawHtml

SpecPlacement ==
    InitPlacement /\ [][NextPlacement]_vars

\* the rectangle has the proportions of the bitmap
KeepsAspectRatio(o, image) ==
    Same(Mul(o.width, image.height), Mul(o.height, image.width))

\* the rectangle lies inside the page
InsidePage(o, page) ==
    /\ Leq(Zero, o.x)
    /\ Leq(Zero, o.y)
    /\ Leq(Add(o.x, o.width), page.width)
    /\ Leq(Add(o.y, o.height), page.height)

\* the rectangle is as wide or as high as the page
TouchesPage(o, page) ==
    \/ Same(o.width, page.width)
    \/ Same(o.height, page.height)

\* the margins are equal left and right, and bottom and top
Centered(o, page) ==
    /\ Same(o.x, Sub(page.width, Add(o.x, o.width)))
    /\ Same(o.y, Sub(page.height, Add(o.y, o.height)))

HtmlTrySteps ==
    {"html.html2canvas", "html.toDataURL", "html.fetch", "html.embedJpg",
     "html.addPage", "html.drawImage"}

\* C12: embedHtmlAsImage never throws to its caller and adds exactly one page
\* on every path: when it is about to return (its finally block is reached)
\* after any of html2canvas, the JPEG encoding, embedJpg, addPage or drawImage
\* failed, or none, no exception is pending and the document holds exactly one
\* page of its making.
C12_EmbedHtmlAddsOnePageNeverThrows ==
    (/\ pc = "html_finally"
     /\ ThrownAt(idx) \subseteq HtmlTrySteps)
        => /\ ~exc
           /\ Len(PagesOf(idx)) = 1

\* ------------------------------------------------------------- the Excel branch alone

\* the largest number of sheets of a workbook
MaxSheets == 2

\* a workbook of the declared type, with no sheet, one sheet, several sheets
ExcelUniverse ==
    { File(<<"s", ".", "x", "l", "s", "x">>, XlsxType, 0, n) : n \in 0..MaxSheets }

InitExcel ==
    /\ files \in { <<f>> : f \in ExcelUniverse }
    /\ InitLocals
    /\ phase = "first"
    /\ saved = None
    /\ ElsewhereIdle

\* the invocation on a workbook
NextExcel ==
    \/ Create
    \/ LoopHead
    \/ EndLoop
    \/ Save
    \/ ExcelRead
    \/ ExcelCatch
    \/ HtmlRender
    \/ HtmlFetch
    \/ HtmlEmbed
    \/ HtmlCatch
    \/ HtmlFinally

SpecExcel ==
    InitExcel /\ [][NextExcel]_vars

\* the failures of reading the workbook and of drawing its rendering
ExcelSteps ==
    {"excel.arrayBuffer", "excel.read", "excel.sheet_to_html", "html.drawImage"}

\* C13: an Excel input contributes exactly one page whatever the number of
\* its sheets: a workbook with one or more sheets that is read and rendered
\* yields the rendering of its first sheet; an unreadable workbook, or one
\* with no sheet that sheet_to_html rejects, yields exactly one
\* 'Could not load Excel file: <name>' notice.
C13_ExcelContributesOnePage ==
    \A i \in 1..Len(files) :
        (/\ Finished(i)
         /\ Dispatch(files[i]) = "excel"
         /\ ThrownAt(i) \subseteq ExcelSteps)
        => /\ ~RejectedAt(i)
           /\ Len(PagesOf(i)) = 1
           /\ (files[i].sheets >= 1 /\ ThrownAt(i) = {})
                 => PagesOf(i) = <<Rendered(i, 1)>>
           /\ ThrownAt(i) \cap {"excel.arrayBuffer", "excel.read", "excel.sheet_to_html"} # {}
                 => PagesOf(i) = <<Notice(i, CouldNotLoadExcel \o files[i].name)>>

\* ------------------------------------------------------------- PdfOrganizer

\* the most pages the files of one selection hold together
MaxOrgPages == 2

\* the latest value of Date.now() while a selection is loaded
MaxTick == 1

\* a PDF file: its name and the rotation each of its pages carries
OrgFile(name, rotations) ==
    [name |-> name, rotations |-> rotations]

\* files of one and of two pages, upright and turned pages, and two
\* different files of the same name
OrgUniverse ==
    { OrgFile("a.pdf", <<0, 90>>), OrgFile("a.pdf", <<90>>),
      OrgFile("b.pdf", <<0>>), OrgFile("b.pdf", <<90>>) }

\* the selections FileUpload hands over: one file, or two different files
OrgSelections ==
    { <<f>> : f \in OrgUniverse }
      \cup { s \in [1..2 -> OrgUniverse] : s[1] # s[2] }

\* pdf.numPages
numPages(pdf) ==
    Len(pdf.rotations)

Rotations ==
    {0, 90, 180, 270}

PageInfo(id, pdf, pageNumber, rotation, originalFileIndex) ==
    [id |-> id, pdf |-> pdf, pageNumber |-> pageNumber, rotation |-> rotation,
     originalFileIndex |-> originalFileIndex]

\* the loop of handleFilesSelected from the file at position f on; now[f] is
\* what Date.now() returns while the pages of that file are pushed
RECURSIVE newPages(_, _, _)
newPages(selectedFiles, now, f) ==
    IF f > Len(selectedFiles) THEN <<>>
    ELSE [i \in 1..numPages(selectedFiles[f]) |->
             PageInfo(<<selectedFiles[f].name, i, now[f]>>, selectedFiles[f], i, 0, f - 1)]
           \o newPages(selectedFiles, now, f + 1)

\* the clock does not run backwards from one file to the next
Clocks(n) ==
    { now \in [1..n -> 0..MaxTick] : \A f \in 1..(n - 1) : now[f] <= now[f + 1] }

\* draggedId === null
NoId ==
    <<>>

\* Array.prototype.findIndex by id, 1-based; 0 where JavaScript gives -1
findIndex(ps, id) ==
    IF \E k \in 1..Len(ps) : ps[k].id = id
    THEN CHOOSE k \in 1..Len(ps) : ps[k].id = id /\ \A j \in 1..(k - 1) : ps[j].id # id
    ELSE 0

\* splice(index, 1) and splice(targetIndex, 0, item) on a copy; index 0 (-1
\* in JavaScript) removes the last element
Move(ps, from, to) ==
    LET at == IF from = 0 THEN Len(ps) ELSE from
        rest == SubSeq(ps, 1, at - 1) \o SubSeq(ps, at + 1, Len(ps))
    IN  SubSeq(rest, 1, to - 1) \o <<ps[at]>> \o SubSeq(rest, to, Len(rest))

\* p.map(page => page.id === id ? {...page, rotation: (page.rotation + 90) % 360} : page)
rotated(ps, id) ==
    [k \in 1..Len(ps) |->
        IF ps[k].id = id
        THEN [ps[k] EXCEPT !.rotation = (ps[k].rotation + 90) % 360]
        ELSE ps[k]]

\* handleSave: loadedOriginalDocs[originalFileIndex], loaded from the pdf of
\* the first entry with that index
loadedOriginalDocs(ps, index) ==
    LET first == CHOOSE k \in 1..Len(ps) :
                    /\ ps[k].originalFileIndex = index
                    /\ \A j \in 1..(k - 1) : ps[j].originalFileIndex # index
    IN  ps[first].pdf

\* handleSave: the pages of mergedPdfDoc, each a copy of page pageNumber of
\* its source document with its rotation set to pageInfo.rotation
organized(ps) ==
    [k \in 1..Len(ps) |->
        [pdf |-> loadedOriginalDocs(ps, ps[k].originalFileIndex),
         pageNumber |-> ps[k].pageNumber,
         rotation |-> ps[k].rotation]]

\* the page thumbnails are on screen
OrgEditing ==
    /\ org_pdfUrl = None
    /\ org_pages # <<>>

PdfOrganizer_handleFilesSelected ==
    /\ org_pdfUrl = None
    /\ org_loading = None
    /\ org_saving = None
    /\ \E selectedFiles \in OrgSelections :
         /\ numPages(selectedFiles[1])
              + (IF Len(selectedFiles) = 2 THEN numPages(selectedFiles[2]) ELSE 0)
              <= MaxOrgPages
         /\ org_loading' = [selectedFiles |-> selectedFiles]
    /\ org_pages' = <<>>
    /\ UNCHANGED <<org_draggedId, org_saving, org_pdfUrl>>
    /\ UNCHANGED <<serviceVars, placementVars, appVars, chatVars>>

\* the awaits of handleFilesSelected settle: setPages(newPages), or the catch
PdfOrganizer_filesLoaded ==
    /\ org_loading # None
    /\ \/ \E now \in Clocks(Len(org_loading.selectedFiles)) :
            org_pages' = newPages(org_loading.selectedFiles, now, 1)
       \/ UNCHANGED org_pages
    /\ org_loading' = None
    /\ UNCHANGED <<org_draggedId, org_saving, org_pdfUrl>>
    /\ UNCHANGED <<serviceVars, placementVars, appVars, chatVars>>

PdfOrganizer_handleDragStart(k) ==
    /\ OrgEditing
    /\ org_draggedId' = org_pages[k].id
    /\ UNCHANGED <<org_pages, org_loading, org_saving, org_pdfUrl>>
    /\ UNCHANGED <<serviceVars, placementVars, appVars, chatVars>>

PdfOrganizer_handleDragEnter(k) ==
    /\ OrgEditing
    /\ org_draggedId # NoId
    /\ org_draggedId # org_pages[k].id
    /\ org_pages' = Move(org_pages, findIndex(org_pages, org_draggedId),
                         findIndex(org_pages, org_pages[k].id))
    /\ UNCHANGED <<org_draggedId, org_loading, org_saving, org_pdfUrl>>
    /\ UNCHANGED <<serviceVars, placementVars, appVars, chatVars>>

PdfOrganizer_handleDragEnd ==
    /\ OrgEditing
    /\ org_draggedId # NoId
    /\ org_draggedId' = NoId
    /\ UNCHANGED <<org_pages, org_loading, org_saving, org_pdfUrl>>
    /\ UNCHANGED <<serviceVars, placementVars, appVars, chatVars>>

PdfOrganizer_handleDeletePage(k) ==
    /\ OrgEditing
    /\ org_pages' = SelectSeq(org_pages, LAMBDA page : page.id # org_pages[k].id)
    /\ UNCHANGED <<org_draggedId, org_loading, org_saving, org_pdfUrl>>
    /\ UNCHANGED <<serviceVars, placementVars, appVars, chatVars>>

PdfOrganizer_handleRotatePage(k) ==
    /\ OrgEditing
    /\ org_pages' = rotated(org_pages, org_pages[k].id)
    /\ UNCHANGED <<org_draggedId, org_loading, org_saving, org_pdfUrl>>
    /\ UNCHANGED <<serviceVars, placementVars, appVars, chatVars>>

\* handleSave up to its first await: the pages of this render are captured
PdfOrganizer_handleSave ==
    /\ OrgEditing
    /\ org_loading = None
    /\ org_saving = None
    /\ org_saving' = [pages |-> org_pages]
    /\ UNCHANGED <<org_pages, org_draggedId, org_loading, org_pdfUrl>>
    /\ UNCHANGED <<serviceVars, placementVars, appVars, chatVars>>

\* the awaits of handleSave settle: setPdfUrl(url), or the catch
PdfOrganizer_saved ==
    /\ org_saving # None
    /\ \/ org_pdfUrl' = [doc |-> organized(org_saving.pages), shown |-> org_saving.pages]
       \/ UNCHANGED org_pdfUrl
    /\ org_saving' = None
    /\ UNCHANGED <<org_pages, org_draggedId, org_loading>>
    /\ UNCHANGED <<serviceVars, placementVars, appVars, chatVars>>

PdfOrganizer_handleReset ==
    /\ org_pdfUrl # None
    /\ org_pages' = <<>>
    /\ org_pdfUrl' = None
    /\ UNCHANGED <<org_draggedId, org_loading, org_saving>>
    /\ UNCHANGED <<serviceVars, placementVars, appVars, chatVars>>

\* the page as loaded: every component with its useState initial values
InitMounted ==
    /\ ServiceIdle
    /\ PlacementIdle
    /\ OrganizerIdle
    /\ AppIdle
    /\ ChatIdle

NextOrganizer ==
    \/ PdfOrganizer_handleFilesSelected
    \/ PdfOrganizer_filesLoaded
    \/ \E k \in 1..Len(org_pages) : PdfOrganizer_handleDragStart(k)
    \/ \E k \in 1..Len(org_pages) : PdfOrganizer_handleDragEnter(k)
    \/ PdfOrganizer_handleDragEnd
    \/ \E k \in 1..Len(org_pages) : PdfOrganizer_handleDeletePage(k)
    \/ \E k \in 1..Len(org_pages) : PdfOrganizer_handleRotatePage(k)
    \/ PdfOrganizer_handleSave
    \/ PdfOrganizer_saved
    \/ PdfOrganizer_handleReset

SpecOrganizer ==
    InitMounted /\ [][NextOrganizer]_vars

\* C14: the document handleSave produces has exactly as many pages as the
\* organizer displayed; its k-th page is a copy of the source page
\* (originalFileIndex, pageNumber) of the k-th entry, turned by the entry's
\* rotation relative to the rotation the page has in its source file (so a
\* page never rotated keeps its source rotation).
C14_SavedDocumentFollowsTheEntries ==
    org_pdfUrl # None =>
        LET doc == org_pdfUrl.doc
            shown == org_pdfUrl.shown
        IN  /\ Len(doc) = Len(shown)
            /\ \A k \in 1..Len(shown) :
                 /\ doc[k].pdf = shown[k].pdf
                 /\ doc[k].pageNumber = shown[k].pageNumber
                 /\ doc[k].rotation
                      = (shown[k].pdf.rotations[shown[k].pageNumber] + shown[k].rotation) % 360

\* only the entry at position k changed, by a quarter turn
OnlyTurned(k) ==
    /\ Len(org_pages') = Len(org_pages)
    /\ org_pages'[k] = [org_pages[k] EXCEPT !.rotation = (org_pages[k].rotation + 90) % 360]
    /\ \A j \in 1..Len(org_pages) : j # k => org_pages'[j] = org_pages[j]

\* C15: every rotation is one of 0, 90, 180, 270; handleRotatePage advances
\* the page it is called for by 90 modulo 360 and leaves the order, the length
\* and every other page unchanged; four rotations of a page restore the list.
C15_RotateTurnsOnePage ==
    /\ [](\A k \in 1..Len(org_pages) :
            /\ org_pages[k].rotation \in Rotations
            /\ LET id == org_pages[k].id
               IN  rotated(rotated(rotated(rotated(org_pages, id), id), id), id) = org_pages)
    /\ [][\A k \in 1..Len(org_pages) :
            PdfOrganizer_handleRotatePage(k) => OnlyTurned(k)]_vars

\* ------------------------------------------------------------- App: the merger's file list

\* the most files the list holds
MaxAppFiles == 3

\* a File of the list: what the handlers read of it
AppFile(name, size, lastModified) ==
    [name |-> name, size |-> size, lastModified |-> lastModified]

\* two files of the same name and different sizes, and a third that ties
\* with one of them in size
AppUniverse ==
    { AppFile("a.pdf", 1, 3), AppFile("a.pdf", 2, 1), AppFile("b.png", 1, 2) }

\* what FileUpload or the clipboard hands over: one file, two different
\* files, or two copies of a file, equal in name, size and date
AppSelections ==
    { <<f>> : f \in AppUniverse }
      \cup { s \in [1..2 -> AppUniverse] : s[1] # s[2] }
      \cup { <<AppFile("a.pdf", 1, 3), AppFile("a.pdf", 1, 3)>> }

\* a.name.localeCompare(b.name)
localeCompare(a, b) ==
    LET rank == [n \in {"a.pdf", "b.png"} |-> IF n = "a.pdf" THEN 1 ELSE 2]
    IN  rank[a] - rank[b]

\* the comparator of sortFiles
comparison(a, b, criteria, order) ==
    LET c == CASE criteria = "size" -> a.size - b.size
               [] criteria = "date" -> a.lastModified - b.lastModified
               [] OTHER -> localeCompare(a.name, b.name)
    IN  IF order = "asc" THEN c ELSE 0 - c

\* Array.prototype.sort, which is stable
RECURSIVE sort(_, _, _)
sort(fs, criteria, order) ==
    IF fs = <<>> THEN <<>>
    ELSE LET x == fs[Len(fs)]
             s == sort(SubSeq(fs, 1, Len(fs) - 1), criteria, order)
             p == Cardinality({ k \in 1..Len(s) : comparison(s[k], x, criteria, order) <= 0 })
         IN  SubSeq(s, 1, p) \o <<x>> \o SubSeq(s, p + 1, Len(s))

\* currentFiles.find(f => f.name === name): its position, 0 when there is none
findByName(fs, name) ==
    IF \E k \in 1..Len(fs) : fs[k].name = name
    THEN CHOOSE k \in 1..Len(fs) : fs[k].name = name /\ \A j \in 1..(k - 1) : fs[j].name # name
    ELSE 0

\* the name a pinnedFileName holds, "" for null
nameOf(pinnedFileName) ==
    IF pinnedFileName = None THEN "" ELSE pinnedFileName.name

sortFiles(criteria, order, currentFiles, pinnedFileName) ==
    LET first == IF pinnedFileName = None THEN 0
                 ELSE findByName(currentFiles, pinnedFileName.name)
        filesToSort == IF first # 0
                       THEN SelectSeq(currentFiles, LAMBDA f : f.name # pinnedFileName.name)
                       ELSE currentFiles
    IN  IF first # 0
        THEN <<currentFiles[first]>> \o sort(filesToSort, criteria, order)
        ELSE sort(filesToSort, criteria, order)

\* the updater of handleFilesSelected
withSelected(prevFiles, selectedFiles) ==
    prevFiles \o SelectSeq(selectedFiles, LAMBDA sf :
                    ~\E k \in 1..Len(prevFiles) :
                        prevFiles[k].name = sf.name /\ prevFiles[k].size = sf.size)

\* the updater of handleSetFirstPage when a file is pinned
withFirst(prevFiles, fileName) ==
    IF findByName(prevFiles, fileName) = 0 THEN prevFiles
    ELSE <<prevFiles[findByName(prevFiles, fileName)]>>
           \o SelectSeq(prevFiles, LAMBDA f : f.name # fileName)

\* a drag-and-drop session is on; the browser delivers no click and no key
\* event until it ends
AppDragging ==
    app_draggedIndex # None /\ app_draggedIndex.live

\* processingFileName, "" for null
processingFileName ==
    IF app_merging = None \/ app_processing = 0 THEN ""
    ELSE app_merging.files[app_processing].name

\* the file list and its buttons are on screen and take clicks
AppListShown ==
    /\ app_pdfUrl = None
    /\ app_files # <<>>
    /\ ~AppDragging

\* the list leaves the screen: a drag-and-drop session on it is over
AppListGone ==
    IF app_draggedIndex = None THEN None
    ELSE [app_draggedIndex EXCEPT !.live = FALSE]

\* FileUpload calls onFilesSelected
App_handleFilesSelected ==
    /\ app_pdfUrl = None
    /\ app_merging = None
    /\ ~AppDragging
    /\ \E selectedFiles \in AppSelections :
         /\ Len(withSelected(app_files, selectedFiles)) <= MaxAppFiles
         /\ app_files' = withSelected(app_files, selectedFiles)
    /\ UNCHANGED <<app_firstPageFileName, app_sortCriteria, app_sortOrder,
                   app_draggedIndex, app_merging, app_processing, app_pdfUrl>>
    /\ UNCHANGED <<serviceVars, placementVars, organizerVars, chatVars>>

\* the paste listener of the window: handleFilesSelected(pastedFiles)
App_handlePaste ==
    /\ ~AppDragging
    /\ \E pastedFiles \in AppSelections :
         /\ Len(withSelected(app_files, pastedFiles)) <= MaxAppFiles
         /\ app_files' = withSelected(app_files, pastedFiles)
    /\ app_pdfUrl' = None
    /\ UNCHANGED <<app_firstPageFileName, app_sortCriteria, app_sortOrder,
                   app_draggedIndex, app_merging, app_processing>>
    /\ UNCHANGED <<serviceVars, placementVars, organizerVars, chatVars>>

App_handleSortCriteriaChange(criteria) ==
    /\ AppListShown
    /\ app_files' = sortFiles(criteria, app_sortOrder, app_files, app_firstPageFileName)
    /\ app_sortCriteria' = criteria
    /\ UNCHANGED <<app_firstPageFileName, app_sortOrder, app_draggedIndex,
                   app_merging, app_processing, app_pdfUrl>>
    /\ UNCHANGED <<serviceVars, placementVars, organizerVars, chatVars>>

App_handleSortOrderChange ==
    /\ AppListShown
    /\ LET newOrder == IF app_sortOrder = "asc" THEN "desc" ELSE "asc"
       IN  /\ app_files' = sortFiles(app_sortCriteria, newOrder, app_files, app_firstPageFileName)
           /\ app_sortOrder' = newOrder
    /\ UNCHANGED <<app_firstPageFileName, app_sortCriteria, app_draggedIndex,
                   app_merging, app_processing, app_pdfUrl>>
    /\ UNCHANGED <<serviceVars, placementVars, organizerVars, chatVars>>

\* the file stays pinned when it is removed
App_handleRemoveFileKeepsPin(k) ==
    /\ AppListShown
    /\ app_files[k].name # processingFileName
    /\ app_files' = SelectSeq(app_files, LAMBDA f : f.name # app_files[k].name)
    /\ UNCHANGED <<app_firstPageFileName, app_sortCriteria, app_sortOrder, app_draggedIndex,
                   app_merging, app_processing, app_pdfUrl>>
    /\ UNCHANGED <<serviceVars, placementVars, organizerVars, chatVars>>

\* the remove button of the k-th card
App_handleRemoveFile(k) ==
    /\ AppListShown
    /\ app_files[k].name # processingFileName
    /\ app_files' = SelectSeq(app_files, LAMBDA f : f.name # app_files[k].name)
    /\ app_firstPageFileName' =
         IF app_files[k].name = nameOf(app_firstPageFileName) THEN None
         ELSE app_firstPageFileName
    /\ UNCHANGED <<app_sortCriteria, app_sortOrder, app_draggedIndex,
                   app_merging, app_processing, app_pdfUrl>>
    /\ UNCHANGED <<serviceVars, placementVars, organizerVars, chatVars>>

\* the pin button of the k-th card
App_handleSetFirstPage(k) ==
    /\ AppListShown
    /\ app_files[k].name # processingFileName
    /\ LET fileName == app_files[k].name
       IN  IF fileName = nameOf(app_firstPageFileName)
           THEN /\ app_firstPageFileName' = None
                /\ app_files' = sortFiles(app_sortCriteria, app_sortOrder, app_files, None)
           ELSE /\ app_firstPageFileName' = [name |-> fileName]
                /\ app_files' = withFirst(app_files, fileName)
    /\ UNCHANGED <<app_sortCriteria, app_sortOrder, app_draggedIndex,
                   app_merging, app_processing, app_pdfUrl>>
    /\ UNCHANGED <<serviceVars, placementVars, organizerVars, chatVars>>

\* the k-th card is draggable and the user starts to drag it
App_handleDragStart(k) ==
    /\ AppListShown
    /\ app_files[k].name # nameOf(app_firstPageFileName)
    /\ app_files[k].name # processingFileName
    /\ app_draggedIndex' = [index |-> k, live |-> TRUE]
    /\ UNCHANGED <<app_files, app_firstPageFileName, app_sortCriteria, app_sortOrder,
                   app_merging, app_processing, app_pdfUrl>>
    /\ UNCHANGED <<serviceVars, placementVars, organizerVars, chatVars>>

\* the drag enters the k-th card (index k - 1 of the code)
App_handleDragEnter(k) ==
    /\ AppDragging
    /\ app_pdfUrl = None
    /\ app_draggedIndex.index # k
    /\ ~(/\ app_firstPageFileName # None
         /\ \/ k = 1
            \/ app_files[app_draggedIndex.index].name = nameOf(app_firstPageFileName))
    /\ app_files' = Move(app_files, app_draggedIndex.index, k)
    /\ app_draggedIndex' = [index |-> k, live |-> TRUE]
    /\ UNCHANGED <<app_firstPageFileName, app_sortCriteria, app_sortOrder,
                   app_merging, app_processing, app_pdfUrl>>
    /\ UNCHANGED <<serviceVars, placementVars, organizerVars, chatVars>>

App_handleDragEnd ==
    /\ AppDragging
    /\ app_draggedIndex' = None
    /\ UNCHANGED <<app_files, app_firstPageFileName, app_sortCriteria, app_sortOrder,
                   app_merging, app_processing, app_pdfUrl>>
    /\ UNCHANGED <<serviceVars, placementVars, organizerVars, chatVars>>

\* handleMerge up to its await: mergeFilesToPdf is given the files of this render
App_handleMerge ==
    /\ AppListShown
    /\ app_merging = None
    /\ app_merging' = [files |-> app_files]
    /\ app_processing' = 0
    /\ UNCHANGED <<app_files, app_firstPageFileName, app_sortCriteria, app_sortOrder,
                   app_draggedIndex, app_pdfUrl>>
    /\ UNCHANGED <<serviceVars, placementVars, organizerVars, chatVars>>

\* mergeFilesToPdf calls onProgress for its next file: setProcessingFileName
App_onProgress ==
    /\ app_merging # None
    /\ app_processing < Len(app_merging.files)
    /\ app_processing' = app_processing + 1
    /\ UNCHANGED <<app_files, app_firstPageFileName, app_sortCriteria, app_sortOrder,
                   app_draggedIndex, app_merging, app_pdfUrl>>
    /\ UNCHANGED <<serviceVars, placementVars, organizerVars, chatVars>>

\* mergeFilesToPdf settles: setPdfUrl(url) when it resolves, which it does
\* after its last file; the catch when it rejects; then finally
App_merged ==
    /\ app_merging # None
    /\ \/ /\ app_processing = Len(app_merging.files)
          /\ app_pdfUrl' = [files |-> app_merging.files]
          /\ app_draggedIndex' = AppListGone
       \/ UNCHANGED <<app_pdfUrl, app_draggedIndex>>
    /\ app_merging' = None
    /\ app_processing' = 0
    /\ UNCHANGED <<app_files, app_firstPageFileName, app_sortCriteria, app_sortOrder>>
    /\ UNCHANGED <<serviceVars, placementVars, organizerVars, chatVars>>

App_handleReset ==
    /\ app_pdfUrl # None
    /\ app_files' = <<>>
    /\ app_firstPageFileName' = None
    /\ app_pdfUrl' = None
    /\ UNCHANGED <<app_sortCriteria, app_sortOrder, app_draggedIndex,
                   app_merging, app_processing>>
    /\ UNCHANGED <<serviceVars, placementVars, organizerVars, chatVars>>

NextApp ==
    \/ App_handleFilesSelected
    \/ App_handlePaste
    \/ \E criteria \in {"name", "size", "date"} : App_handleSortCriteriaChange(criteria)
    \/ App_handleSortOrderChange
    \/ \E k \in 1..Len(app_files) : App_handleRemoveFile(k)
    \/ \E k \in 1..Len(app_files) : App_handleSetFirstPage(k)
    \/ \E k \in 1..Len(app_files) : App_handleDragStart(k)
    \/ \E k \in 1..Len(app_files) : App_handleDragEnter(k)
    \/ App_handleDragEnd
    \/ App_handleMerge
    \/ App_onProgress
    \/ App_merged
    \/ App_handleReset

SpecApp ==
    InitMounted /\ [][NextApp]_vars

\* how many times f is in fs
Times(fs, f) ==
    Cardinality({ k \in 1..Len(fs) : fs[k] = f })

\* no file dropped, none duplicated
Permuted ==
    \A f \in AppUniverse : Times(app_files', f) = Times(app_files, f)

\* C16: sorting (handleSortCriteriaChange, handleSortOrderChange), pinning and
\* unpinning (handleSetFirstPage) and drag-reordering (handleDragEnter) only
\* permute the file list, with or without a pinned file and also when several
\* files share a name: no file is dropped and none is duplicated.
C16_ReorderingOnlyPermutes ==
    [][(\/ \E criteria \in {"name", "size", "date"} : App_handleSortCriteriaChange(criteria)
        \/ App_handleSortOrderChange
        \/ \E k \in 1..Len(app_files) : App_handleSetFirstPage(k)
        \/ \E k \in 1..Len(app_files) : App_handleDragEnter(k))
          => Permuted]_vars

\* C17: the PDF that handleMerge publishes in pdfUrl when it completes was
\* built from exactly the file list the merger holds at that moment, whatever
\* was pasted, removed, sorted, pinned or dragged while the merge was in flight.
C17_PublishedPdfIsOfTheCurrentList ==
    [][(app_pdfUrl = None /\ app_pdfUrl' # None)
          => app_pdfUrl'.files = app_files']_vars

\* C18: whenever firstPageFileName is not null, the file list is not empty
\* and its first entry has that name.
C18_PinnedFileIsFirst ==
    app_firstPageFileName # None
        => /\ app_files # <<>>
           /\ app_files[1].name = app_firstPageFileName.name

\* a file is pinned in a list of three that was sorted by descending size and
\* extended after the pin, while a merge is in flight
C18_Witness ==
    /\ app_firstPageFileName # None
    /\ Len(app_files) = 3
    /\ app_sortOrder = "desc"
    /\ app_sortCriteria = "size"
    /\ app_files[3].name = app_firstPageFileName.name
    /\ app_merging # None

\* ------------------------------------------------------------- AiChat

\* the most messages the list holds
MaxMessages == 3

\* the files FileUpload hands over
ChatFiles ==
    { [name |-> "p.pdf", type |-> "application/pdf"],
      [name |-> "q.pdf", type |-> "application/pdf"],
      [name |-> "n.txt", type |-> "text/plain"] }

\* what the user types
ChatInputs ==
    {"q1", "q2"}

\* handleFileSelected up to its first await; FileUpload is on screen while
\* file is null and takes files while isInitializing is false
AiChat_handleFileSelected ==
    /\ chat_file = None
    /\ ~chat_isInitializing
    /\ \E selectedFile \in ChatFiles :
         /\ selectedFile.type = "application/pdf"
         /\ chat_file' = selectedFile
         /\ chat_init' = [file |-> selectedFile, at |-> "convertFileToBase64"]
    /\ chat_isInitializing' = TRUE
    /\ UNCHANGED <<chat_session, chat_messages, chat_isLoading>>
    /\ UNCHANGED <<serviceVars, placementVars, organizerVars, appVars>>

\* await convertFileToBase64 settles: ai.chats.create and setChatSession(chat),
\* or catch and finally
AiChat_converted ==
    /\ chat_init # None
    /\ chat_init.at = "convertFileToBase64"
    /\ \/ /\ chat_session' = [of |-> chat_init.file]
          /\ chat_init' = [chat_init EXCEPT !.at = "sendMessage"]
          /\ UNCHANGED <<chat_file, chat_isInitializing>>
       \/ /\ chat_file' = None
          /\ chat_isInitializing' = FALSE
          /\ chat_init' = None
          /\ UNCHANGED chat_session
    /\ UNCHANGED <<chat_messages, chat_isLoading>>
    /\ UNCHANGED <<serviceVars, placementVars, organizerVars, appVars>>

\* await chat.sendMessage of the summary settles: setMessages([...]), or
\* catch; then finally
AiChat_summarized ==
    /\ chat_init # None
    /\ chat_init.at = "sendMessage"
    /\ \/ /\ chat_messages' = <<[role |-> "model", text |-> "summary"]>>
          /\ UNCHANGED chat_file
       \/ /\ chat_file' = None
          /\ UNCHANGED chat_messages
    /\ chat_isInitializing' = FALSE
    /\ chat_init' = None
    /\ UNCHANGED <<chat_session, chat_isLoading>>
    /\ UNCHANGED <<serviceVars, placementVars, organizerVars, appVars>>

\* handleSendMessage up to its await; the form is on screen while file is set
AiChat_handleSendMessage ==
    /\ chat_file # None
    /\ chat_session # None
    /\ ~chat_isLoading
    /\ Len(chat_messages) < MaxMessages
    /\ \E input \in ChatInputs :
         chat_messages' = Append(chat_messages, [role |-> "user", text |-> input])
    /\ chat_isLoading' = TRUE
    /\ UNCHANGED <<chat_file, chat_session, chat_isInitializing, chat_init>>
    /\ UNCHANGED <<serviceVars, placementVars, organizerVars, appVars>>

\* await chatSession.sendMessage settles: the reply appended (when it has
\* text), or the apology of the catch; then finally
AiChat_replied ==
    /\ chat_isLoading
    /\ \/ chat_messages' = Append(chat_messages, [role |-> "model", text |-> "answer"])
       \/ UNCHANGED chat_messages
       \/ chat_messages' = Append(chat_messages, [role |-> "model", text |-> "sorry"])
    /\ chat_isLoading' = FALSE
    /\ UNCHANGED <<chat_file, chat_session, chat_isInitializing, chat_init>>
    /\ UNCHANGED <<serviceVars, placementVars, organizerVars, appVars>>

\* the reset button of the chat header, on screen while file is set
AiChat_handleReset ==
    /\ chat_file # None
    /\ chat_file' = None
    /\ chat_session' = None
    /\ chat_messages' = <<>>
    /\ UNCHANGED <<chat_isLoading, chat_isInitializing, chat_init>>
    /\ UNCHANGED <<serviceVars, placementVars, organizerVars, appVars>>

NextChat ==
    \/ AiChat_handleFileSelected
    \/ AiChat_converted
    \/ AiChat_summarized
    \/ AiChat_handleSendMessage
    \/ AiChat_replied
    \/ AiChat_handleReset

SpecChat ==
    InitMounted /\ [][NextChat]_vars

\* C19: whenever file is null, messages is empty and chatSession is null,
\* after any interleaving of file selection, success or failure of the
\* initialisation, sending, arrival of a reply and handleReset.
C19_NoFileNoChat ==
    chat_file = None
        => /\ chat_messages = <<>>
           /\ chat_session = None

\* C20: between file selection and handleReset the message list is
\* append-only: a message that is in the list stays at its position, also a
\* message sent while the request for the initial summary is in flight.
C20_MessagesAppendOnly ==
    [][(chat_file # None /\ chat_file' # None)
          => /\ Len(chat_messages') >= Len(chat_messages)
             /\ SubSeq(chat_messages', 1, Len(chat_messages)) = chat_messages]_vars

\* ------------------------------------------------------------- PdfOrganizer: the ids

\* C21: the ids of the loaded pages are pairwise distinct for every selection
\* (also two files of the same name), so handleDeletePage removes exactly the
\* page it is called for and handleRotatePage changes exactly that page.
C21_PageIdsAreDistinct ==
    /\ [](\A j \in 1..Len(org_pages) : \A k \in 1..Len(org_pages) :
            org_pages[j].id = org_pages[k].id => j = k)
    /\ [][\A k \in 1..Len(org_pages) :
            /\ PdfOrganizer_handleDeletePage(k)
                 => org_pages' = SubSeq(org_pages, 1, k - 1)
                                  \o SubSeq(org_pages, k + 1, Len(org_pages))
            /\ PdfOrganizer_handleRotatePage(k)
                 => Cardinality({ j \in 1..Len(org_pages) :
                                    org_pages'[j] # org_pages[j] }) = 1]_vars

\* ------------------------------------------------------------- App: equal entries

\* C22: the file list never holds two entries with the same name and the same
\* size, after any sequence of handleFilesSelected calls (picker, drop,
\* paste), also when one selection itself holds two such files.
C22_NoTwoEntriesOfEqualNameAndSize ==
    \A j \in 1..Len(app_files) : \A k \in 1..Len(app_files) :
        (/\ app_files[j].name = app_files[k].name
         /\ app_files[j].size = app_files[k].size) => j = k

=============================================================================
